---- MODULE Spec2Model ----
(***************************************************************************)
(* The new-tab click operations of FooterComponent (clickMediaKitLink,     *)
(* clickLinkedInLink, clickTwitterLink, clickYoutubeLink,                  *)
(* clickFacebookLink, clickInstagramLink, clickGithubLink).  The seven     *)
(* methods have the same body; the link clicked is the input `link`.       *)
(*                                                                         *)
(* One invocation is followed from its call to the point where control     *)
(* leaves it (a returned Page or a thrown error).  The browser is the      *)
(* environment: for every attempt it decides whether the trigger becomes   *)
(* visible, whether the click opens a tab, when the 'page' event fires     *)
(* relative to the click's return and to the 30 s window, and whether the  *)
(* new tab reaches 'domcontentloaded'.                                     *)
(*                                                                         *)
(* Further specifications over the same variables follow the click         *)
(* operations: the same-tab footer clicks (SpecFooter), direct calls of    *)
(* dismissCookieConsent (SpecConsent), the test runner and a spec file's   *)
(* hooks (SpecSuite), HomePage's language detection (SpecLang), language   *)
(* switching and logo check (SpecHome), and FooterComponent's link scans   *)
(* (SpecScan) and visibility probes (SpecProbe).                           *)
(***************************************************************************)
EXTENDS Integers, Sequences, FiniteSets, TLC

VARIABLES
    pc,            \* position of the invocation in the method body
    link,          \* the footer link the invoked method clicks
    scenario,      \* what the browser does on attempt 1, 2, ... (environment)
    cookieDialog,  \* TRUE while the cookie-consent dialog covers the page
    attempts,      \* number of waitForEvent('page') registrations so far
    waits,         \* attempt -> state of its waitForEvent('page') window
    clicks,        \* attempt -> state of its this.click(locator) call
    tabs,          \* attempt -> the tab its click opened
    newPage,       \* the Page Promise.all resolved with (0: none)
    log,           \* steps the invocation has performed, in order
    results,       \* values returned to the caller (Pages, or op/value records)
    errors,        \* errors thrown to the caller
    url,           \* where the original page (this.page) is
    test,          \* the calling test: its phase and the tabs it has closed
    homePage,      \* worker -> the describe-scope `let homePage` of its module
    phase,         \* test -> how far the runner has taken it
    worker,        \* test -> the worker process running it (0: none yet)
    uses,          \* <<test, owner of the page object its body called>>
    footerLinks,   \* the anchors page.locator('footer a') resolves to
    footer         \* when the footer element becomes visible, if it does

opVars == <<pc, link, scenario, cookieDialog, attempts, waits, clicks, tabs,
            newPage, log, results, errors, url, test>>

suiteVars == <<homePage, phase, worker, uses>>

domVars == <<footerLinks, footer>>

vars == <<opVars, suiteVars, domVars>>

(* Workers of the configuration (workers: 3) and the tests of one file. *)
numWorkers == 3

MaxTests == 3

Workers == 1..numWorkers

Tests == 1..MaxTests

(* The describe-scope variable before its first assignment. *)
Unassigned == [builtBy |-> 0, page |-> 0]

(* No test has been started; the footer is on the page and has no links. *)
SuiteIdle ==
    /\ homePage = [w \in Workers |-> Unassigned]
    /\ phase = [t \in Tests |-> "queued"]
    /\ worker = [t \in Tests |-> 0]
    /\ uses = {}

PlainFooter ==
    /\ footerLinks = <<>>
    /\ footer = [appearsAt |-> 0, detached |-> FALSE]

(***************************************************************************)
(* Documented contract of the retry helper (README, clickLinkWithRetry).   *)
(***************************************************************************)
maxAttempts == 3

baseDelay == 1000

settleDelay == 500

NewTabLinks == {"mediaKit", "linkedIn", "twitter", "youtube", "facebook",
                "instagram", "github"}

(***************************************************************************)
(* What the browser does with one attempt:                                 *)
(*   ok               the click returns, the tab opens in the window and   *)
(*                    loads                                                *)
(*   clickNotVisible  locator.waitFor({state:'visible'}) times out: the    *)
(*                    click throws before anything is clicked              *)
(*   clickThrowsAfter the element is clicked and the tab opens, but        *)
(*                    locator.click rejects                                *)
(*   noEvent          the click returns, no tab ever opens                 *)
(*   lateEvent        the click returns, the tab opens only after the      *)
(*                    30 s window has expired                              *)
(*   loadTimeout      the tab opens in the window but never reaches        *)
(*                    'domcontentloaded' within 30 s                       *)
(***************************************************************************)
(* Page handles: thisPage is the Page the component was constructed with;  *)
(* the tabs the context opens during an invocation are numbered from 1.    *)
thisPage == 0

(* Footer links that open in the same tab (their methods return void). *)
SameTabLinks == {"privacyPolicy", "terms", "contact", "cookiePolicy",
                 "codeOfConduct", "humanRights"}

(* The operations whose body has no dismissCookieConsent call. *)
NoDismissLinks == {"privacyPolicy", "terms"}

Outcomes == {"ok", "clickNotVisible", "clickThrowsAfter", "noEvent",
             "lateEvent", "loadTimeout"}

Scenarios == [1..maxAttempts -> Outcomes]

OpensTab(o) == o \in {"ok", "clickThrowsAfter", "lateEvent", "loadTimeout"}

Step(s, t) == [step |-> s, ms |-> t]

Pending == {a \in DOMAIN waits : waits[a] = "pending"}

WaitState(a) == IF a \in DOMAIN waits THEN waits[a] ELSE "none"

Done == pc \in {"returned", "failed"}

Init ==
    /\ pc = "idle"
    /\ link = "none"
    /\ scenario = [a \in 1..maxAttempts |-> "ok"]
    /\ cookieDialog \in BOOLEAN
    /\ attempts = 0
    /\ waits = <<>>
    /\ clicks = <<>>
    /\ tabs = <<>>
    /\ newPage = 0
    /\ log = <<>>
    /\ results = <<>>
    /\ errors = <<>>
    /\ url = "home"
    /\ test = [phase |-> "running", closed |-> {}]
    /\ SuiteIdle
    /\ PlainFooter

(* Variant: the rejection is caught and dropped, the method falls through. *)
Throw_Swallowed(cause) ==
    /\ pc' = "failed"
    /\ errors' = errors

(***************************************************************************)
(* An awaited promise rejects and nothing catches it: the async method     *)
(* rejects with that error.                                                *)
(***************************************************************************)
Throw(cause) ==
    /\ pc' = "failed"
    /\ errors' = Append(errors, [cause |-> cause, attempt |-> attempts])

(* A test calls one of the click...Link methods. *)
Invoke ==
    /\ pc = "idle"
    /\ \E l \in NewTabLinks, s \in Scenarios :
          /\ link' = l
          /\ scenario' = s
    /\ pc' = "called"
    /\ UNCHANGED <<suiteVars, domVars, url, test, cookieDialog, attempts, waits, clicks, tabs, newPage, log,
                   results, errors>>

(* await this.scrollToFooter(): scrollIntoViewIfNeeded, then wait(500). *)
scrollToFooter ==
    /\ pc = "called"
    /\ \E found \in BOOLEAN :
          IF found
          THEN /\ log' = log \o <<Step("scroll", 0), Step("waitScroll", 500)>>
               /\ pc' = "scrolled"
               /\ UNCHANGED errors
          ELSE /\ log' = Append(log, Step("scroll", 0))
               /\ Throw("scroll")
    /\ UNCHANGED <<suiteVars, domVars, url, test, link, scenario, cookieDialog, attempts, waits, clicks, tabs,
                   newPage, results>>

(* Variant: the accept button is clicked without probing its visibility. *)
tryDismiss_ClickWithoutProbe ==
    \E clickOk \in BOOLEAN :
        IF cookieDialog /\ clickOk
        THEN /\ cookieDialog' = FALSE
             /\ log' = log \o <<Step("dismiss", 0), Step("clickConsent", 0),
                                Step("waitConsent", 500)>>
        ELSE /\ cookieDialog' = cookieDialog
             /\ log' = log \o <<Step("dismiss", 0), Step("clickConsent", 0)>>

(***************************************************************************)
(* The body of BasePage.dismissCookieConsent, inside its try/catch:        *)
(* acceptButton.isVisible(); if it is visible, click it and wait(500).     *)
(* A rejection of the probe or of the click is caught and dropped.         *)
(***************************************************************************)
tryDismiss ==
    \E probeThrows \in BOOLEAN, clickOk \in BOOLEAN :
        IF cookieDialog /\ ~probeThrows
        THEN IF clickOk
             THEN /\ cookieDialog' = FALSE
                  /\ log' = log \o <<Step("dismiss", 0), Step("clickConsent", 0),
                                     Step("waitConsent", 500)>>
             ELSE /\ cookieDialog' = cookieDialog
                  /\ log' = log \o <<Step("dismiss", 0), Step("clickConsent", 0)>>
        ELSE /\ cookieDialog' = cookieDialog
             /\ log' = Append(log, Step("dismiss", 0))

(* Variant: no try/catch, a rejected probe or click leaves the method. *)
dismissCookieConsent_NoCatch ==
    /\ pc = "scrolled"
    /\ link \notin NoDismissLinks
    /\ \E probeThrows \in BOOLEAN, clickOk \in BOOLEAN :
          IF probeThrows \/ (cookieDialog /\ ~clickOk)
          THEN /\ log' = Append(log, Step("dismiss", 0))
               /\ Throw("consent")
               /\ UNCHANGED cookieDialog
          ELSE /\ cookieDialog' = FALSE
               /\ log' = IF cookieDialog
                         THEN log \o <<Step("dismiss", 0), Step("clickConsent", 0),
                                       Step("waitConsent", 500)>>
                         ELSE Append(log, Step("dismiss", 0))
               /\ pc' = "dismissed"
               /\ UNCHANGED errors
    /\ UNCHANGED <<suiteVars, domVars, url, test, link, scenario, attempts, waits, clicks, tabs, newPage,
                   results>>

(* await this.dismissCookieConsent(): never throws. *)
dismissCookieConsent ==
    /\ pc = "scrolled"
    /\ link \notin NoDismissLinks
    /\ tryDismiss
    /\ pc' = "dismissed"
    /\ UNCHANGED <<suiteVars, domVars, url, test, link, scenario, attempts, waits, clicks, tabs, newPage,
                   results, errors>>

(***************************************************************************)
(* A caller invokes the public method dismissCookieConsent on the page     *)
(* object directly, any number of times up to MaxCalls.                    *)
(***************************************************************************)
MaxCalls == 5

callDismissCookieConsent ==
    /\ pc = "idle"
    /\ Cardinality({i \in 1..Len(log) : log[i].step = "dismiss"}) < MaxCalls
    /\ tryDismiss
    /\ UNCHANGED <<suiteVars, domVars, url, test, pc, link, scenario, attempts, waits, clicks, tabs,
                   newPage, results, errors>>

NextConsent == callDismissCookieConsent

SpecConsent == Init /\ [][NextConsent]_vars

(* Variant: the settle pause before the attempt is left out. *)
settle_Skipped ==
    /\ pc = "dismissed"
    /\ log' = log
    /\ pc' = "settled"
    /\ UNCHANGED <<suiteVars, domVars, url, test, link, scenario, cookieDialog, attempts, waits, clicks, tabs,
                   newPage, results, errors>>

(* await this.wait(500) *)
settle ==
    /\ pc = "dismissed"
    /\ log' = Append(log, Step("waitSettle", settleDelay))
    /\ pc' = "settled"
    /\ UNCHANGED <<suiteVars, domVars, url, test, link, scenario, cookieDialog, attempts, waits, clicks, tabs,
                   newPage, results, errors>>

(* Variant: the click is awaited first and the wait registered afterwards. *)
startAttempt_ClickThenWait ==
    \/ /\ pc = "settled"
       /\ link \in NewTabLinks
       /\ attempts' = attempts + 1
       /\ clicks' = [a \in DOMAIN clicks \cup {attempts + 1} |->
                       IF a = attempts + 1 THEN "waitingVisible" ELSE clicks[a]]
       /\ log' = Append(log, Step("click", 0))
       /\ pc' = "racing"
       /\ UNCHANGED <<suiteVars, domVars, url, test, link, scenario, cookieDialog, waits, tabs, newPage,
                      results, errors>>
    \/ /\ pc = "racing"
       /\ attempts \notin DOMAIN waits
       /\ clicks[attempts] = "returned"
       /\ waits' = [a \in DOMAIN waits \cup {attempts} |->
                      IF a = attempts THEN "pending" ELSE waits[a]]
       /\ log' = Append(log, Step("register", 0))
       /\ UNCHANGED <<suiteVars, domVars, url, test, pc, link, scenario, cookieDialog, attempts, clicks, tabs,
                      newPage, results, errors>>

(***************************************************************************)
(* The array literal handed to Promise.all is evaluated left to right      *)
(* before anything is awaited: waitForEvent('page') registers its listener *)
(* and this.click(locator) starts.                                         *)
(***************************************************************************)
startAttempt ==
    /\ pc = "settled"
    /\ link \in NewTabLinks
    /\ attempts' = attempts + 1
    /\ waits' = [a \in DOMAIN waits \cup {attempts + 1} |->
                    IF a = attempts + 1 THEN "pending" ELSE waits[a]]
    /\ clicks' = [a \in DOMAIN clicks \cup {attempts + 1} |->
                    IF a = attempts + 1 THEN "waitingVisible" ELSE clicks[a]]
    /\ log' = log \o <<Step("register", 0), Step("click", 0)>>
    /\ pc' = "racing"
    /\ UNCHANGED <<suiteVars, domVars, url, test, link, scenario, cookieDialog, tabs, newPage, results, errors>>

(* BasePage.click: locator.waitFor({state:'visible'}) times out. *)
clickNotVisible ==
    \E a \in DOMAIN clicks :
        /\ clicks[a] = "waitingVisible"
        /\ scenario[a] = "clickNotVisible"
        /\ clicks' = [clicks EXCEPT ![a] = "threw"]
        /\ UNCHANGED <<suiteVars, domVars, url, test, pc, link, scenario, cookieDialog, attempts, waits, tabs,
                       newPage, log, results, errors>>

(* BasePage.click: the element is visible and locator.click clicks it. *)
(* A link that opens no tab may instead navigate the page it was clicked   *)
(* on; a link that opens a tab leaves its opener where it is.              *)
clickDispatch ==
    \E a \in DOMAIN clicks :
        /\ clicks[a] = "waitingVisible"
        /\ scenario[a] # "clickNotVisible"
        /\ clicks' = [clicks EXCEPT ![a] = "dispatched"]
        /\ url' \in IF OpensTab(scenario[a]) THEN {url} ELSE {url, link}
        /\ UNCHANGED <<suiteVars, domVars, test, pc, link, scenario, cookieDialog, attempts, waits, tabs,
                       newPage, log, results, errors>>

(* BasePage.click: locator.click resolves, or rejects after the click. *)
clickSettles ==
    \E a \in DOMAIN clicks :
        /\ clicks[a] = "dispatched"
        /\ clicks' = [clicks EXCEPT ![a] =
                        IF scenario[a] = "clickThrowsAfter" THEN "threw"
                                                           ELSE "returned"]
        /\ UNCHANGED <<suiteVars, domVars, url, test, pc, link, scenario, cookieDialog, attempts, waits, tabs,
                       newPage, log, results, errors>>

(***************************************************************************)
(* The browser opens the tab the click asked for and the context emits     *)
(* 'page'.  Every pending waitForEvent window resolves with the Page; with *)
(* no pending window the event has no listener.                            *)
(***************************************************************************)
tabOpens ==
    \E a \in DOMAIN clicks :
        /\ clicks[a] \in {"dispatched", "returned", "threw"}
        /\ a \notin DOMAIN tabs
        /\ OpensTab(scenario[a])
        /\ scenario[a] = "lateEvent" => WaitState(a) = "timedout"
        /\ tabs' = [t \in DOMAIN tabs \cup {a} |->
                      IF t = a
                      THEN [loaded |-> FALSE,
                            observedBy |-> Pending,
                            clickAtOpen |-> clicks[a],
                            inWindow |-> scenario[a] # "lateEvent"]
                      ELSE tabs[t]]
        /\ waits' = [w \in DOMAIN waits |->
                       IF w \in Pending THEN "resolved" ELSE waits[w]]
        /\ newPage' = IF pc = "racing" /\ attempts \in Pending
                      THEN a ELSE newPage
        /\ UNCHANGED <<suiteVars, domVars, url, test, pc, link, scenario, cookieDialog, attempts, clicks, log,
                       results, errors>>

(* Variant: waitForEvent('page') is given no timeout and never expires. *)
waitForEventTimeout_Never ==
    /\ FALSE
    /\ UNCHANGED vars

(* waitForEvent('page', { timeout: 30000 }) expires. *)
waitForEventTimeout ==
    \E a \in DOMAIN waits :
        /\ waits[a] = "pending"
        /\ a \in DOMAIN clicks
        /\ \/ scenario[a] \in {"noEvent", "lateEvent"}
           \/ clicks[a] = "threw" /\ scenario[a] = "clickNotVisible"
        /\ waits' = [waits EXCEPT ![a] = "timedout"]
        /\ UNCHANGED <<suiteVars, domVars, url, test, pc, link, scenario, cookieDialog, attempts, clicks, tabs,
                       newPage, log, results, errors>>

(* Variant: the rejection is caught and the attempt repeated after a       *)
(* backoff and the scroll, dismissal and settle pause, up to maxAttempts.  *)
promiseAllRejects_Retry ==
    /\ pc = "racing"
    /\ clicks[attempts] = "threw" \/ WaitState(attempts) = "timedout"
    /\ IF attempts < maxAttempts
       THEN /\ log' = log \o <<Step("waitBackoff", baseDelay * attempts),
                               Step("scroll", 0), Step("waitScroll", 500),
                               Step("dismiss", 0),
                               Step("waitSettle", settleDelay)>>
            /\ pc' = "settled"
            /\ UNCHANGED errors
       ELSE /\ Throw("exhausted")
            /\ UNCHANGED log
    /\ UNCHANGED <<suiteVars, domVars, url, test, link, scenario, cookieDialog, attempts, waits, clicks, tabs,
                   newPage, results>>

(* Variant: the scroll and dismissal are run once more before the error    *)
(* of the failed attempt is rethrown.                                      *)
promiseAllRejects_RecoverThenThrow ==
    /\ pc = "racing"
    /\ clicks[attempts] = "threw" \/ WaitState(attempts) = "timedout"
    /\ log' = log \o <<Step("scroll", 0), Step("waitScroll", 500),
                       Step("dismiss", 0)>>
    /\ Throw("tabOpenTimeout")
    /\ UNCHANGED <<suiteVars, domVars, url, test, link, scenario, cookieDialog, attempts, waits, clicks, tabs,
                   newPage, results>>

(* Variant: when no tab opened, the link is followed on this.page and     *)
(* this.page is returned.                                                  *)
promiseAllRejects_FallbackSameTab ==
    /\ pc = "racing"
    /\ \/ /\ clicks[attempts] = "threw"
          /\ Throw("click")
          /\ UNCHANGED <<url, results>>
       \/ /\ WaitState(attempts) = "timedout"
          /\ url' = link
          /\ results' = Append(results, thisPage)
          /\ pc' = "returned"
          /\ UNCHANGED errors
    /\ UNCHANGED <<suiteVars, domVars, test, link, scenario, cookieDialog, attempts, waits, clicks, tabs,
                   newPage, log>>

(* Promise.all rejects as soon as one of its two promises rejects. *)
promiseAllRejects ==
    /\ pc = "racing"
    /\ \/ /\ clicks[attempts] = "threw"
          /\ Throw("click")
       \/ /\ WaitState(attempts) = "timedout"
          /\ Throw("tabOpenTimeout")
    /\ UNCHANGED <<suiteVars, domVars, url, test, link, scenario, cookieDialog, attempts, waits, clicks, tabs,
                   newPage, log, results>>

(* Promise.all resolves: both promises resolved; [newPage] is the Page. *)
promiseAllResolves ==
    /\ pc = "racing"
    /\ clicks[attempts] = "returned"
    /\ WaitState(attempts) = "resolved"
    /\ log' = Append(log, Step("waitLoad", 0))
    /\ pc' = "loading"
    /\ UNCHANGED <<suiteVars, domVars, url, test, link, scenario, cookieDialog, attempts, waits, clicks, tabs,
                   newPage, results, errors>>

(* The new tab reaches 'domcontentloaded'. *)
tabLoads ==
    \E t \in DOMAIN tabs :
        /\ ~tabs[t].loaded
        /\ scenario[t] # "loadTimeout"
        /\ tabs' = [tabs EXCEPT ![t].loaded = TRUE]
        /\ UNCHANGED <<suiteVars, domVars, url, test, pc, link, scenario, cookieDialog, attempts, waits, clicks,
                       newPage, log, results, errors>>

(* Variant: newPage is returned without waiting for its load state. *)
returnNewPage_NoLoadWait ==
    /\ pc = "loading"
    /\ results' = Append(results, newPage)
    /\ pc' = "returned"
    /\ UNCHANGED <<suiteVars, domVars, url, test, link, scenario, cookieDialog, attempts, waits, clicks, tabs,
                   newPage, log, errors>>

(* newPage.waitForLoadState('domcontentloaded') resolves; return newPage. *)
returnNewPage ==
    /\ pc = "loading"
    /\ tabs[newPage].loaded
    /\ results' = Append(results, newPage)
    /\ pc' = "returned"
    /\ UNCHANGED <<suiteVars, domVars, url, test, link, scenario, cookieDialog, attempts, waits, clicks, tabs,
                   newPage, log, errors>>

(* newPage.waitForLoadState('domcontentloaded', { timeout: 30000 }) expires. *)
loadTimeout ==
    /\ pc = "loading"
    /\ ~tabs[newPage].loaded
    /\ scenario[newPage] = "loadTimeout"
    /\ Throw("loadTimeout")
    /\ UNCHANGED <<suiteVars, domVars, url, test, link, scenario, cookieDialog, attempts, waits, clicks, tabs,
                   newPage, log, results>>

(***************************************************************************)
(* The calling test (TC003-20 and its like): with the returned Page it     *)
(* waits for the load state, reads newPage.url() and runs its expect()     *)
(* assertions; a failing expect throws and ends the test body.             *)
(***************************************************************************)
testAsserts ==
    /\ pc = "returned"
    /\ test.phase = "running"
    /\ \E pass \in BOOLEAN :
          test' = [test EXCEPT !.phase = IF pass THEN "asserted" ELSE "failed"]
    /\ UNCHANGED <<suiteVars, domVars, pc, link, scenario, cookieDialog, attempts, waits, clicks,
                   tabs, newPage, log, results, errors, url>>

(* The last statement of the test body: await newPage.close(). *)
testClosesTab ==
    /\ test.phase = "asserted"
    /\ test' = [phase |-> "passed", closed |-> test.closed \cup {results[1]}]
    /\ UNCHANGED <<suiteVars, domVars, pc, link, scenario, cookieDialog, attempts, waits, clicks,
                   tabs, newPage, log, results, errors, url>>

(* The click method threw: the rejection ends the test body. *)
testFails ==
    /\ pc = "failed"
    /\ test.phase = "running"
    /\ test' = [test EXCEPT !.phase = "failed"]
    /\ UNCHANGED <<suiteVars, domVars, pc, link, scenario, cookieDialog, attempts, waits, clicks,
                   tabs, newPage, log, results, errors, url>>

Next ==
    \/ Invoke
    \/ scrollToFooter
    \/ dismissCookieConsent
    \/ settle
    \/ startAttempt
    \/ clickNotVisible
    \/ clickDispatch
    \/ clickSettles
    \/ tabOpens
    \/ waitForEventTimeout
    \/ promiseAllRejects
    \/ promiseAllResolves
    \/ tabLoads
    \/ returnNewPage
    \/ loadTimeout
    \/ testAsserts
    \/ testClosesTab
    \/ testFails

Spec == Init /\ [][Next]_vars

(***************************************************************************)
(* The event loop runs a continuation as soon as the promise it awaits     *)
(* settles, and the browser's timers and events fire: no enabled step is   *)
(* postponed forever.                                                      *)
(***************************************************************************)
LiveSpec == Spec /\ WF_vars(Next)

(***************************************************************************)
(* The same-tab click operations of FooterComponent.  They share           *)
(* scrollToFooter with the new-tab operations; four of them also share     *)
(* dismissCookieConsent and the wait(500).                                 *)
(***************************************************************************)
InvokeSameTab ==
    /\ pc = "idle"
    /\ link' \in SameTabLinks
    /\ pc' = "called"
    /\ UNCHANGED <<suiteVars, domVars, url, test, scenario, cookieDialog, attempts, waits, clicks,
                   tabs, newPage, log, results, errors>>

(* clickPrivacyPolicyLink / clickTermsLink: await this.click(link) comes   *)
(* straight after scrollToFooter.                                          *)
clickAfterScroll ==
    /\ pc = "scrolled"
    /\ link \in NoDismissLinks
    /\ \E visible \in BOOLEAN :
          IF visible
          THEN /\ log' = Append(log, Step("click", 0))
               /\ url' = link
               /\ pc' = "navigating"
               /\ UNCHANGED errors
          ELSE /\ log' = log
               /\ url' = url
               /\ Throw("click")
    /\ UNCHANGED <<suiteVars, domVars, test, link, scenario, cookieDialog, attempts, waits, clicks,
                   tabs, newPage, results>>

(* clickContactLink and the three policy links: link.click({force:true})   *)
(* after the wait(500), then wait(1000).                                   *)
forceClick ==
    /\ pc = "settled"
    /\ link \in SameTabLinks
    /\ \E attached \in BOOLEAN :
          IF attached
          THEN /\ log' = log \o <<Step("click", 0), Step("waitClick", 1000)>>
               /\ url' = link
               /\ pc' = "navigating"
               /\ UNCHANGED errors
          ELSE /\ log' = log
               /\ url' = url
               /\ Throw("click")
    /\ UNCHANGED <<suiteVars, domVars, test, link, scenario, cookieDialog, attempts, waits, clicks,
                   tabs, newPage, results>>

(* await this.waitForPageLoad(): waitForLoadState('networkidle'). *)
waitForPageLoad ==
    /\ pc = "navigating"
    /\ \E idle \in BOOLEAN :
          IF idle
          THEN /\ pc' = "returnedVoid"
               /\ UNCHANGED errors
          ELSE Throw("load")
    /\ UNCHANGED <<suiteVars, domVars, url, test, link, scenario, cookieDialog, attempts, waits,
                   clicks, tabs, newPage, log, results>>

NextFooter ==
    \/ Next
    \/ InvokeSameTab
    \/ clickAfterScroll
    \/ forceClick
    \/ waitForPageLoad

SpecFooter == Init /\ [][NextFooter]_vars

TypeOK ==
    /\ pc \in {"idle", "called", "scrolled", "dismissed", "settled", "racing",
               "loading", "returned", "failed", "navigating", "returnedVoid"}
    /\ attempts \in 0..maxAttempts
    /\ DOMAIN waits \subseteq 1..maxAttempts
    /\ Len(results) + Len(errors) <= 2

(***************************************************************************)
(* Observations on the log of one invocation.                              *)
(***************************************************************************)
Idx(kinds) == {i \in 1..Len(log) : log[i].step \in kinds}

Count(kind) == Cardinality(Idx({kind}))

BackoffDelays ==
    LET sel == SelectSeq(log, LAMBDA e : e.step = "waitBackoff")
    IN  [i \in 1..Len(sel) |-> sel[i].ms]

RecoveryKinds == {"scroll", "dismiss"}

AllAttemptsFail == \A a \in 1..maxAttempts : scenario[a] # "ok"

HasOk == \E a \in 1..maxAttempts : scenario[a] = "ok"

FirstOk ==
    CHOOSE k \in 1..maxAttempts :
        scenario[k] = "ok" /\ \A j \in 1..(k - 1) : scenario[j] # "ok"

(***************************************************************************)
(* C1: if every attempt fails, the operation raises exactly one terminal   *)
(* error, returns no tab handle, and has made exactly N attempts.          *)
(***************************************************************************)
C1_ExhaustionAfterNAttempts ==
    (Done /\ attempts >= 1 /\ AllAttemptsFail) =>
        /\ attempts = maxAttempts
        /\ Len(errors) = 1
        /\ results = <<>>

(***************************************************************************)
(* C2: if the first k-1 attempts fail and attempt k succeeds, the          *)
(* operation returns a tab handle after exactly k attempts and the backoff *)
(* delays between the attempts are 1, 2, ..., k-1 time-units in order.     *)
(***************************************************************************)
C2_SuccessOnAttemptK ==
    (Done /\ attempts >= 1 /\ HasOk) =>
        /\ Len(results) = 1
        /\ attempts = FirstOk
        /\ BackoffDelays = [i \in 1..(FirstOk - 1) |-> i * baseDelay]

(***************************************************************************)
(* C3: the failure of an attempt is never visible to the caller while      *)
(* attempts remain: an error leaves the operation only after attempt N.    *)
(***************************************************************************)
C3_OnlyExhaustionPropagates ==
    \A i \in 1..Len(errors) :
        errors[i].attempt >= 1 => errors[i].attempt = maxAttempts

(***************************************************************************)
(* C4 as stated: when attempt 1 succeeds the operation returns a handle    *)
(* after exactly one attempt with no backoff delay and no scroll, no       *)
(* consent dismissal and no settle pause at all.                           *)
(***************************************************************************)
C4_NoStepsAtAll ==
    (pc = "returned" /\ scenario[1] = "ok") =>
        /\ attempts = 1
        /\ BackoffDelays = <<>>
        /\ Idx({"scroll", "dismiss", "waitSettle"}) = {}

(***************************************************************************)
(* C4 amended: when attempt 1 succeeds the operation returns a handle      *)
(* after exactly one attempt with no backoff delay; the scroll, the        *)
(* consent dismissal and the settle pause each run exactly once, all       *)
(* before the attempt registers its tab-open wait, and none after it.      *)
(***************************************************************************)
C4_OneAttemptPreStepsOnce ==
    (pc = "returned" /\ scenario[1] = "ok") =>
        /\ attempts = 1
        /\ results = <<1>>
        /\ BackoffDelays = <<>>
        /\ Count("scroll") = 1
        /\ Count("dismiss") = 1
        /\ Count("waitSettle") = 1
        /\ Count("register") = 1
        /\ \A i \in Idx({"scroll", "dismiss", "waitSettle"}) :
              \A r \in Idx({"register"}) : i < r

C4_Witness ==
    /\ pc = "returned"
    /\ scenario[1] = "ok"
    /\ Count("clickConsent") = 1
    /\ tabs[1].clickAtOpen = "returned"

(***************************************************************************)
(* C5 as stated: the scroll and the consent dismissal run only between two *)
(* consecutive attempts, never before attempt 1 and never after the final  *)
(* attempt.                                                                *)
(***************************************************************************)
C5_OnlyBetweenAttempts ==
    (Done /\ attempts >= 1) =>
        \A i \in Idx(RecoveryKinds) :
            /\ \E r \in Idx({"register"}) : r < i
            /\ \E r \in Idx({"register"}) : i < r

(***************************************************************************)
(* C5 amended: the scroll and the consent dismissal run only ahead of an   *)
(* attempt: both run before attempt 1, and neither runs after the final    *)
(* attempt, whether that attempt succeeded or failed.                      *)
(***************************************************************************)
C5_OnlyAheadOfAnAttempt ==
    (Done /\ attempts >= 1) =>
        /\ \A i \in Idx(RecoveryKinds) : \E r \in Idx({"register"}) : i < r
        /\ \A r \in Idx({"register"}) :
              /\ \E i \in Idx({"scroll"}) : i < r
              /\ \E i \in Idx({"dismiss"}) : i < r

C5_Witness ==
    /\ pc = "failed"
    /\ attempts = 1
    /\ errors[1].cause = "tabOpenTimeout"
    /\ Idx(RecoveryKinds) # {}

(***************************************************************************)
(* C6: an invocation ends in exactly one outcome, one returned tab handle  *)
(* or one raised error, never both and never neither; before it ends it    *)
(* has produced nothing.                                                   *)
(***************************************************************************)
C6_ExactlyOneOutcome ==
    /\ Len(results) + Len(errors) <= 1
    /\ Done <=> (Len(results) + Len(errors) = 1)
    /\ pc = "returned" <=> Len(results) = 1
    /\ pc = "failed" <=> Len(errors) = 1

C6_Witness ==
    /\ pc = "failed"
    /\ newPage # 0
    /\ errors[1].cause = "loadTimeout"
    /\ results = <<>>

C8_NoTabOpenEventMissed ==
    /\ \A a \in DOMAIN clicks : clicks[a] # "waitingVisible" => a \in DOMAIN waits
    /\ \A t \in DOMAIN tabs : tabs[t].inWindow => t \in tabs[t].observedBy
    /\ \A a \in DOMAIN tabs :
          (pc = "racing" /\ a = attempts /\ tabs[a].inWindow) =>
              (WaitState(a) = "resolved" /\ newPage = a)

C8_Witness ==
    /\ pc = "loading"
    /\ newPage = 1
    /\ tabs[1].clickAtOpen = "dispatched"
    /\ 1 \in tabs[1].observedBy

(***************************************************************************)
(* C9: a returned tab handle has reached 'domcontentloaded'; a tab whose   *)
(* tab-open signal was observed but whose load wait failed is not          *)
(* returned.                                                               *)
(***************************************************************************)
C9_ReturnedTabIsLoaded ==
    /\ \A i \in 1..Len(results) :
          /\ results[i] \in DOMAIN tabs
          /\ tabs[results[i]].loaded
          /\ scenario[results[i]] # "loadTimeout"
    /\ (\E i \in 1..Len(errors) : errors[i].cause = "loadTimeout") => results = <<>>

C9_Witness ==
    /\ pc = "returned"
    /\ results = <<1>>
    /\ tabs[1].loaded
    /\ tabs[1].clickAtOpen = "dispatched"

(***************************************************************************)
(* C10: with N = 3 and base_delay = 1, when the click never produces a     *)
(* tab-open signal, exactly 3 attempts occur, the backoff delays are 1     *)
(* then 2 time-units (3 in total, none after the third attempt) and one    *)
(* terminal error is then raised.                                          *)
(***************************************************************************)
C10_ThreeAttemptsTwoDelays ==
    (Done /\ attempts >= 1 /\ \A a \in 1..3 : scenario[a] = "noEvent") =>
        /\ attempts = 3
        /\ BackoffDelays = <<1000, 2000>>
        /\ Len(errors) = 1
        /\ results = <<>>

(***************************************************************************)
(* The rejection an attempt ends with, by what the browser does with it.   *)
(***************************************************************************)
CauseOf(o) ==
    CASE o \in {"clickNotVisible", "clickThrowsAfter"} -> "click"
      [] o \in {"noEvent", "lateEvent"} -> "tabOpenTimeout"
      [] o = "loadTimeout" -> "loadTimeout"
      [] OTHER -> "none"

(***************************************************************************)
(* What the caller reads in a thrown error.  The methods contain no throw  *)
(* statement: the error is the rejection of the awaited call as it is, so  *)
(* its text is that call's own and carries neither the name of the click   *)
(* method nor a count of attempts.                                         *)
(***************************************************************************)
ErrorMessage(e) == [text |-> e.cause, action |-> "none", attemptsNamed |-> 0]

(***************************************************************************)
(* C11: the terminal error raised after all N attempts have failed carries *)
(* the failure of the last, N-th attempt as its cause, not that of an      *)
(* earlier attempt.                                                        *)
(***************************************************************************)
C11_CauseIsLastAttempts ==
    (Done /\ attempts >= 1 /\ AllAttemptsFail) =>
        \A i \in 1..Len(errors) :
            /\ errors[i].attempt = maxAttempts
            /\ errors[i].cause = CauseOf(scenario[maxAttempts])

(***************************************************************************)
(* C12: the message of the terminal error names the action being retried   *)
(* and the number of attempts exhausted.                                   *)
(***************************************************************************)
C12_MessageNamesActionAndCount ==
    \A i \in 1..Len(errors) :
        errors[i].attempt >= 1 =>
            /\ ErrorMessage(errors[i]).action = link
            /\ ErrorMessage(errors[i]).attemptsNamed = maxAttempts

(***************************************************************************)
(* C13: new-tab operations are retried, 3 attempts in all, with backoff    *)
(* delays of 1 s, 2 s and 3 s.                                             *)
(***************************************************************************)
C13_ThreeAttemptsDelays123 ==
    (Done /\ attempts >= 1 /\ AllAttemptsFail) =>
        /\ attempts = 3
        /\ BackoffDelays = <<1000, 2000, 3000>>

(***************************************************************************)
(* The steps logged after the a-th registration of a tab-open wait and up  *)
(* to the next registration (the end of the log when there is none).       *)
(***************************************************************************)
RegisterAt(a) ==
    CHOOSE i \in Idx({"register"}) :
        Cardinality({j \in Idx({"register"}) : j <= i}) = a

StepsAfterAttempt(a) ==
    LET from == RegisterAt(a)
        upto == IF Count("register") > a THEN RegisterAt(a + 1) ELSE Len(log)
    IN  SelectSeq(SubSeq(log, from + 1, upto),
                  LAMBDA e : e.step \in {"waitBackoff", "scroll", "dismiss",
                                         "waitSettle", "register"})

(***************************************************************************)
(* C14: after each failed attempt with attempts remaining, the steps up to *)
(* the next attempt are, in this order: the backoff delay of               *)
(* attempt_number x 1 time-unit, the scroll, the consent dismissal, the    *)
(* 0.5 time-unit settle pause, and then the next tab-open registration.    *)
(***************************************************************************)
C14_RecoveryOrder ==
    Done =>
        \A a \in 1..(maxAttempts - 1) :
            (a <= attempts /\ scenario[a] # "ok") =>
                StepsAfterAttempt(a) =
                    <<Step("waitBackoff", a * baseDelay), Step("scroll", 0),
                      Step("dismiss", 0), Step("waitSettle", settleDelay),
                      Step("register", 0)>>

(***************************************************************************)
(* C15: dismissCookieConsent never raises; with no dialog present, or when *)
(* the probe or the click throws, it completes without effect on the       *)
(* dialog; it clicks the accept button only when the dialog is visible,    *)
(* and at most once per call.                                              *)
(***************************************************************************)
C15_DismissNeverRaises ==
    [][pc = "scrolled" =>
          /\ pc' = "dismissed"
          /\ errors' = errors
          /\ Count("clickConsent")' - Count("clickConsent") \in {0, 1}
          /\ Count("clickConsent")' > Count("clickConsent") => cookieDialog
          /\ ~cookieDialog =>
                /\ cookieDialog' = cookieDialog
                /\ log' = Append(log, Step("dismiss", 0))
          /\ cookieDialog' => cookieDialog]_vars

C15_Witness ==
    /\ pc = "dismissed"
    /\ cookieDialog
    /\ Count("clickConsent") = 1
    /\ errors = <<>>

(***************************************************************************)
(* C16: consent dismissal is idempotent and persistent: once the dialog    *)
(* has been dismissed it stays dismissed, and a further call of            *)
(* dismissCookieConsent performs no click and leaves the page unchanged.   *)
(***************************************************************************)
C16_DismissIdempotent ==
    [][~cookieDialog =>
          /\ cookieDialog' = FALSE
          /\ url' = url
          /\ Count("clickConsent")' = Count("clickConsent")
          /\ log' = Append(log, Step("dismiss", 0))]_vars

C16_Witness ==
    /\ ~cookieDialog
    /\ Count("waitConsent") = 1
    /\ Count("dismiss") >= 3
    /\ log[Len(log)].step = "dismiss"
    /\ log[Len(log) - 1].step = "dismiss"

(***************************************************************************)
(* C17: every invocation of a new-tab click operation terminates: each of  *)
(* its waits resolves or times out, so a called operation eventually       *)
(* returns or throws, and it never makes more than N attempts.             *)
(***************************************************************************)
C17_Terminates ==
    /\ (pc = "called") ~> Done
    /\ [](attempts <= maxAttempts)

C17_Witness ==
    /\ pc = "failed"
    /\ scenario[1] = "noEvent"
    /\ WaitState(1) = "timedout"
    /\ errors[1].cause = "tabOpenTimeout"

(***************************************************************************)
(* C18: a test that received a tab handle has closed that tab by the time  *)
(* its body ends, on every path, the failing-assertion path included.      *)
(***************************************************************************)
C18_TestClosesTab ==
    (test.phase \in {"passed", "failed"} /\ results # <<>>) =>
        results[1] \in test.closed

(***************************************************************************)
(* C19: in every footer click operation the click on the link comes after  *)
(* a call of dismissCookieConsent.                                         *)
(***************************************************************************)
C19_DismissBeforeEveryClick ==
    \A i \in Idx({"click"}) : \E j \in Idx({"dismiss"}) : j < i

(***************************************************************************)
(* C20: when a new-tab click operation has returned a handle, the original *)
(* page is still at the URL it had before the call, and the handle is a    *)
(* tab opened during the call, not the original page.                      *)
(***************************************************************************)
C20_OriginalPageNotNavigated ==
    pc = "returned" =>
        /\ url = "home"
        /\ results[1] \in DOMAIN tabs
        /\ results[1] # thisPage

C20_Witness ==
    /\ test.phase = "asserted"
    /\ link = "twitter"
    /\ url = "home"
    /\ results = <<1>>

(***************************************************************************)
(* Timeouts, in milliseconds: the options handed to waitForEvent and       *)
(* waitForLoadState, and the runner's per-test timeout of the              *)
(* configuration (the footer tests do not call test.setTimeout).           *)
(***************************************************************************)
tabOpenTimeout == 30000

loadStateTimeout == 30000

testTimeout == 30 * 1000

RECURSIVE SumMs(_)
SumMs(steps) ==
    IF steps = <<>> THEN 0 ELSE Head(steps).ms + SumMs(Tail(steps))

(* Time the invocation has spent in its own pauses before step number i. *)
ElapsedBefore(i) == SumMs(SubSeq(log, 1, i - 1))

(***************************************************************************)
(* C27: the runner's per-test timeout never expires while a wait of the    *)
(* attempt is pending: the deadline of a pending tab-open wait, and of a   *)
(* pending load wait, falls within the test's timeout.                     *)
(***************************************************************************)
C27_WaitsExpireWithinTestTimeout ==
    /\ \A a \in Pending :
          ElapsedBefore(RegisterAt(a)) + tabOpenTimeout <= testTimeout
    /\ pc = "loading" =>
          \A i \in Idx({"waitLoad"}) :
              ElapsedBefore(i) + loadStateTimeout <= testTimeout

C29_NoTabLeftOpen ==
    /\ pc = "returned" => DOMAIN tabs = {results[1]}
    /\ pc = "failed" => DOMAIN tabs \subseteq test.closed

(***************************************************************************)
(* HomePage: language detection, language switching and the logo check.    *)
(* These methods examine the characters of page.url(), so here `url` is    *)
(* the path of the URL as a sequence of characters (the origin             *)
(* https://tier4.jp contains none of the substrings the code looks for).   *)
(***************************************************************************)
Contains(s, p) ==
    \E i \in 1..(Len(s) - Len(p) + 1) : SubSeq(s, i, i + Len(p) - 1) = p

EndsWith(s, p) ==
    /\ Len(s) >= Len(p)
    /\ SubSeq(s, Len(s) - Len(p) + 1, Len(s)) = p

MaxParts == 3

Pieces == { <<"/">>, <<"/", "e", "n">>, <<"/", "c", "n">>, <<"/", "z", "h">>,
            <<"/", "j", "a">>, <<"/", "e">>, <<"n">>, <<"x">> }

RECURSIVE Paths(_)
Paths(k) ==
    IF k = 0 THEN {<<>>}
    ELSE Paths(k - 1) \cup {u \o p : u \in Paths(k - 1), p \in Pieces}

Urls == {u \in Paths(MaxParts) : u # <<>> /\ u[1] = "/"}

(* Variant: the '/ja' test is made first. *)
getCurrentLanguage_JaFirst(u) ==
    IF Contains(u, <<"/", "j", "a">>) THEN "ja"
    ELSE IF Contains(u, <<"/", "e", "n">>) THEN "en"
    ELSE IF Contains(u, <<"/", "c", "n">>) \/ Contains(u, <<"/", "z", "h">>)
         THEN "cn"
    ELSE "ja"

(* HomePage.getCurrentLanguage applied to the URL u. *)
getCurrentLanguage(u) ==
    IF Contains(u, <<"/", "e", "n">>) THEN "en"
    ELSE IF Contains(u, <<"/", "c", "n">>) \/ Contains(u, <<"/", "z", "h">>)
         THEN "cn"
    ELSE IF Contains(u, <<"/", "j", "a">>) THEN "ja"
    ELSE "ja"

StartAt(urls) ==
    /\ pc = "idle"
    /\ link = "none"
    /\ scenario = [a \in 1..maxAttempts |-> "ok"]
    /\ cookieDialog = FALSE
    /\ attempts = 0
    /\ waits = <<>>
    /\ clicks = <<>>
    /\ tabs = <<>>
    /\ newPage = 0
    /\ log = <<>>
    /\ results = <<>>
    /\ errors = <<>>
    /\ url \in urls
    /\ test = [phase |-> "running", closed |-> {}]
    /\ SuiteIdle
    /\ PlainFooter

(* Language detection is examined on every URL of the bounded set. *)
InitLang == StartAt(Urls)

(* The pages the header tests start from or navigate to. *)
StartUrls == { <<"/">>, <<"/", "e", "n">>, <<"/", "j", "a">>,
               <<"/", "c", "n">>, <<"/", "e", "n", "/", "x">> }

InitHome == StartAt(StartUrls)

(* A test body makes at most MaxReads reads and reloads, and at most       *)
(* MaxOps calls of the switching and logo methods.                         *)
MaxReads == 3

MaxOps == 2

(* A test statement reads homePage.getCurrentLanguage(). *)
callGetCurrentLanguage ==
    /\ pc \in {"idle", "returnedVoid"}
    /\ Len(log) < MaxReads
    /\ log' = Append(log, Step("getCurrentLanguage", 0))
    /\ results' = Append(results, [op |-> "getCurrentLanguage",
                                   value |-> getCurrentLanguage(url)])
    /\ UNCHANGED <<suiteVars, domVars, url, test, pc, link, scenario, cookieDialog, attempts, waits,
                   clicks, tabs, newPage, errors>>

(* await page.reload(): the page is loaded again from the same URL. *)
reload ==
    /\ pc \in {"idle", "returnedVoid"}
    /\ Len(log) < MaxReads
    /\ log' = Append(log, Step("reload", 0))
    /\ UNCHANGED <<suiteVars, domVars, url, test, pc, link, scenario, cookieDialog, attempts, waits,
                   clicks, tabs, newPage, results, errors>>

SwitchSteps == {"switchToEnglish", "switchToJapanese", "switchToChinese"}

(***************************************************************************)
(* The body shared by switchToEnglish, switchToJapanese, switchToChinese:  *)
(* openHamburgerMenu (click the menu if isVisible says it is visible, then *)
(* wait(500)); then, only if isVisible says the language option is         *)
(* visible, click it, wait(1000) and waitForPageLoad.  isVisible never     *)
(* throws; a click or the load wait may.  `targets` is where the site      *)
(* sends the page when the option is clicked.                              *)
(***************************************************************************)
SwitchTo(name, targets) ==
    /\ Len(log) < MaxOps
    /\ \E menuVisible \in BOOLEAN, menuClickOk \in BOOLEAN,
          optionVisible \in BOOLEAN, optionClickOk \in BOOLEAN,
          idle \in BOOLEAN, target \in targets :
          LET menuMs == IF menuVisible THEN 500 ELSE 0 IN
          IF menuVisible /\ ~menuClickOk
          THEN /\ Throw("click")
               /\ UNCHANGED <<log, url>>
          ELSE IF ~optionVisible
          THEN /\ log' = Append(log, Step(name, menuMs))
               /\ pc' = "navigating"
               /\ UNCHANGED <<url, errors>>
          ELSE IF ~optionClickOk
          THEN /\ Throw("click")
               /\ UNCHANGED <<log, url>>
          ELSE IF ~idle
          THEN /\ Throw("load")
               /\ url' = target
               /\ UNCHANGED log
          ELSE /\ log' = Append(log, Step(name, menuMs + 1000))
               /\ url' = target
               /\ pc' = "navigating"
               /\ UNCHANGED errors
    /\ UNCHANGED <<suiteVars, domVars, test, link, scenario, cookieDialog, attempts, waits, clicks,
                   tabs, newPage, results>>

switchToEnglish ==
    /\ pc \in {"idle", "returnedVoid"}
    /\ SwitchTo("switchToEnglish", {<<"/", "e", "n">>, <<"/", "e", "n", "/">>})

switchToJapanese ==
    /\ pc \in {"idle", "returnedVoid"}
    /\ SwitchTo("switchToJapanese", {<<"/">>, <<"/", "j", "a">>})

switchToChinese ==
    /\ pc \in {"idle", "returnedVoid"}
    /\ SwitchTo("switchToChinese", {<<"/", "c", "n">>, <<"/", "z", "h">>})

(* Where a click on the logo may leave the page. *)
LogoTargets == { <<"/">>, <<"/", "e", "n">>, <<"/", "j", "a">>,
                 <<"/", "c", "n">>, <<"/", "e", "n", "/">>, <<"/", "x">> }

(* HomePage.clickLogoAndVerifyHomepage: click, waitForPageLoad, then the   *)
(* three endsWith tests on the current URL.                                *)
clickLogoAndVerifyHomepage ==
    /\ pc \in {"idle", "returnedVoid"}
    /\ Len(log) < MaxOps
    /\ \E clickOk \in BOOLEAN, idle \in BOOLEAN, target \in LogoTargets :
          IF ~clickOk
          THEN /\ Throw("click")
               /\ UNCHANGED <<log, url, results>>
          ELSE IF ~idle
          THEN /\ Throw("load")
               /\ url' = target
               /\ UNCHANGED <<log, results>>
          ELSE /\ url' = target
               /\ log' = Append(log, Step("clickLogoAndVerifyHomepage", 0))
               /\ results' = Append(results,
                     [op |-> "clickLogoAndVerifyHomepage",
                      value |-> \/ EndsWith(target, <<"/">>)
                                \/ EndsWith(target, <<"/", "e", "n">>)
                                \/ EndsWith(target, <<"/", "j", "a">>)])
               /\ UNCHANGED <<pc, errors>>
    /\ UNCHANGED <<suiteVars, domVars, test, link, scenario, cookieDialog, attempts, waits, clicks,
                   tabs, newPage>>

NextLang ==
    \/ callGetCurrentLanguage
    \/ reload

SpecLang == InitLang /\ [][NextLang]_vars

NextHome ==
    \/ switchToEnglish
    \/ switchToJapanese
    \/ switchToChinese
    \/ waitForPageLoad
    \/ clickLogoAndVerifyHomepage

SpecHome == InitHome /\ [][NextHome]_vars

(* The language as the contract words it. *)
DetectedLanguage(u) ==
    IF Contains(u, <<"/", "e", "n">>) THEN "en"
    ELSE IF Contains(u, <<"/", "c", "n">>) \/ Contains(u, <<"/", "z", "h">>)
         THEN "cn"
    ELSE "ja"

LanguageReads ==
    {i \in DOMAIN results : results[i].op = "getCurrentLanguage"}

(***************************************************************************)
(* C22: getCurrentLanguage returns 'en' if the URL contains '/en', else    *)
(* 'cn' if it contains '/cn' or '/zh', else 'ja'; with only a reload       *)
(* between two reads, both reads return the same language.                 *)
(***************************************************************************)
C22_LanguageIsFunctionOfUrl ==
    /\ \A i \in LanguageReads : results[i].value \in {"en", "ja", "cn"}
    /\ \A i \in LanguageReads :
          /\ results[i].value = DetectedLanguage(url)
          /\ \A j \in LanguageReads : results[j].value = results[i].value

C22_Witness ==
    /\ Len(results) = 2
    /\ log[2].step = "reload"
    /\ Contains(url, <<"/", "j", "a">>)
    /\ Contains(url, <<"/", "e", "n">>)
    /\ results[2] = [op |-> "getCurrentLanguage", value |-> "en"]

(***************************************************************************)
(* C23: after switchToJapanese() followed by waitForPageLoad() the page is *)
(* in Japanese: the URL contains '/ja' or getCurrentLanguage() is 'ja'.    *)
(***************************************************************************)
C23_JapaneseAfterSwitch ==
    (/\ pc = "returnedVoid"
     /\ log # <<>>
     /\ log[Len(log)].step = "switchToJapanese")
        => \/ Contains(url, <<"/", "j", "a">>)
           \/ getCurrentLanguage(url) = "ja"

(* What TC001-08 takes for a homepage URL. *)
TestTreatsAsHomepage(u) ==
    \/ EndsWith(u, <<"/">>)
    \/ EndsWith(u, <<"/", "e", "n">>)
    \/ EndsWith(u, <<"/", "j", "a">>)
    \/ EndsWith(u, <<"/", "c", "n">>)

(***************************************************************************)
(* C30: when the logo click lands on a URL that TC001-08 takes for a       *)
(* homepage, clickLogoAndVerifyHomepage returns true.                      *)
(***************************************************************************)
C30_LogoCheckAgreesWithTest ==
    (/\ log # <<>>
     /\ log[Len(log)].step = "clickLogoAndVerifyHomepage"
     /\ TestTreatsAsHomepage(url))
        => \E i \in DOMAIN results :
              /\ results[i].op = "clickLogoAndVerifyHomepage"
              /\ results[i].value

(***************************************************************************)
(* The test runner and one spec file.  Every worker process loads the file *)
(* and so has its own describe-scope `let homePage` (and `let footer`,     *)
(* assigned on the next line of the same hook); a worker runs one test at  *)
(* a time, and each test gets a `page` fixture of its own.  A page object  *)
(* is identified by the test whose beforeEach built it and by the page it  *)
(* was built from.                                                         *)
(***************************************************************************)
Busy(w) == \E u \in Tests : worker[u] = w /\ phase[u] \in {"started", "ready"}

(* The runner hands a queued test to an idle worker and creates its page. *)
startTest ==
    \E t \in Tests, w \in Workers :
        /\ phase[t] = "queued"
        /\ ~Busy(w)
        /\ phase' = [phase EXCEPT ![t] = "started"]
        /\ worker' = [worker EXCEPT ![t] = w]
        /\ UNCHANGED <<opVars, domVars, homePage, uses>>

(* Variant: the page objects are built once per worker, as in a beforeAll. *)
beforeEach_OncePerWorker ==
    \E t \in Tests :
        /\ phase[t] = "started"
        /\ homePage' = IF homePage[worker[t]] = Unassigned
                       THEN [homePage EXCEPT ![worker[t]] =
                                [builtBy |-> t, page |-> t]]
                       ELSE homePage
        /\ phase' = [phase EXCEPT ![t] = "ready"]
        /\ UNCHANGED <<opVars, domVars, worker, uses>>

(* test.beforeEach(async ({ page }) => { homePage = new HomePage(page); *)
(* footer = new FooterComponent(page); ... })                             *)
beforeEach ==
    \E t \in Tests :
        /\ phase[t] = "started"
        /\ homePage' = [homePage EXCEPT ![worker[t]] =
                           [builtBy |-> t, page |-> t]]
        /\ phase' = [phase EXCEPT ![t] = "ready"]
        /\ UNCHANGED <<opVars, domVars, worker, uses>>

(* The test body calls methods on the variable its module holds. *)
testBody ==
    \E t \in Tests :
        /\ phase[t] = "ready"
        /\ uses' = uses \cup {[test |-> t, object |-> homePage[worker[t]]]}
        /\ phase' = [phase EXCEPT ![t] = "done"]
        /\ UNCHANGED <<opVars, domVars, homePage, worker>>

NextSuite ==
    \/ startTest
    \/ beforeEach
    \/ testBody

SpecSuite == Init /\ [][NextSuite]_vars

(***************************************************************************)
(* C21: the page object a test body uses was built in that test's own      *)
(* beforeEach from that test's own page, whatever the order of the tests   *)
(* and however they are spread over the workers.                           *)
(***************************************************************************)
C21_NoSharedPageObjects ==
    \A u \in uses : u.object = [builtBy |-> u.test, page |-> u.test]

C21_Witness ==
    \E t1 \in Tests, t2 \in Tests, t3 \in Tests :
        /\ t1 # t2
        /\ worker[t1] = worker[t2]
        /\ worker[t3] # worker[t1]
        /\ phase[t1] = "done"
        /\ phase[t2] = "done"
        /\ phase[t3] = "ready"
        /\ Cardinality(uses) = 2

(***************************************************************************)
(* FooterComponent's scans over page.locator('footer a').  An anchor of    *)
(* the page has its textContent, whether it is visible, its href attribute *)
(* (hasHref is FALSE when getAttribute returns null) and what a GET of the *)
(* href would do: the status it answers with, or a thrown error.           *)
(***************************************************************************)
MaxLinks == 3

http == <<"h", "t", "t", "p">>

TextAnchors ==
    [text : {<<" ">>, <<"a">>, <<" ", "b", " ">>}, visible : BOOLEAN,
     hasHref : {FALSE}, href : {<<>>}, status : {200}, requestThrows : {FALSE}]

HrefAnchors ==
    [text : {<<"a">>}, visible : {TRUE}, hasHref : {TRUE},
     href : {<<>>, <<"/", "p">>}, status : {404}, requestThrows : {FALSE}]
    \cup
    [text : {<<"a">>}, visible : {TRUE}, hasHref : {TRUE},
     href : {http, http \o <<"s">>}, status : {200, 404},
     requestThrows : BOOLEAN]

Anchors == TextAnchors \cup HrefAnchors

RECURSIVE AnchorLists(_)
AnchorLists(n) ==
    IF n = 0 THEN {<<>>}
    ELSE AnchorLists(n - 1)
         \cup {Append(l, a) : l \in {m \in AnchorLists(n - 1) : Len(m) = n - 1},
                              a \in Anchors}

InitScan ==
    /\ pc = "idle"
    /\ link = "none"
    /\ scenario = [a \in 1..maxAttempts |-> "ok"]
    /\ cookieDialog = FALSE
    /\ attempts = 0
    /\ waits = <<>>
    /\ clicks = <<>>
    /\ tabs = <<>>
    /\ newPage = 0
    /\ log = <<>>
    /\ results = <<>>
    /\ errors = <<>>
    /\ url = "home"
    /\ test = [phase |-> "running", closed |-> {}]
    /\ SuiteIdle
    /\ footerLinks \in AnchorLists(MaxLinks)
    /\ footer = [appearsAt |-> 0, detached |-> FALSE]

StartsWith(s, p) == Len(s) >= Len(p) /\ SubSeq(s, 1, Len(p)) = p

(* String.prototype.trim on a text whose only whitespace is the blank. *)
RECURSIVE TrimStart(_)
TrimStart(s) ==
    IF s # <<>> /\ Head(s) = " " THEN TrimStart(Tail(s)) ELSE s

RECURSIVE TrimEnd(_)
TrimEnd(s) ==
    IF s # <<>> /\ s[Len(s)] = " " THEN TrimEnd(SubSeq(s, 1, Len(s) - 1)) ELSE s

(* Variant: the text is returned as it is, untrimmed. *)
getText_Untrimmed(a) == a.text

(* BasePage.getText on a visible anchor: text?.trim() || ''. *)
getText(a) == TrimEnd(TrimStart(a.text))

(* The loop of getAllFooterLinkTexts: if (text) linkTexts.push(text). *)
RECURSIVE LinkTexts(_)
LinkTexts(links) ==
    IF links = <<>> THEN <<>>
    ELSE LET text == getText(Head(links)) IN
         (IF text # <<>> THEN <<text>> ELSE <<>>) \o LinkTexts(Tail(links))

(***************************************************************************)
(* getAllFooterLinkTexts: scrollToFooter, then getText on every anchor.    *)
(* getText waits for the anchor to be visible and rejects on a hidden one; *)
(* nothing catches that.                                                   *)
(***************************************************************************)
getAllFooterLinkTexts ==
    /\ pc = "idle"
    /\ \E scrolled \in BOOLEAN :
          IF ~scrolled
          THEN /\ Throw("scroll")
               /\ UNCHANGED results
          ELSE IF \E i \in DOMAIN footerLinks : ~footerLinks[i].visible
          THEN /\ Throw("getText")
               /\ UNCHANGED results
          ELSE /\ results' = Append(results, [op |-> "getAllFooterLinkTexts",
                                             value |-> LinkTexts(footerLinks)])
               /\ pc' = "returned"
               /\ UNCHANGED errors
    /\ UNCHANGED <<suiteVars, domVars, url, test, link, scenario, cookieDialog,
                   attempts, waits, clicks, tabs, newPage, log>>

(* if (href && href.startsWith('http')): the hrefs the loop sends a GET to. *)
Checked(a) == a.hasHref /\ a.href # <<>> /\ StartsWith(a.href, http)

RECURSIVE Requests(_)
Requests(links) ==
    IF links = <<>> THEN <<>>
    ELSE (IF Checked(Head(links))
          THEN <<[step |-> "get", ms |-> 0, href |-> Head(links).href]>>
          ELSE <<>>) \o Requests(Tail(links))

(* Variant: the catch block reports the href as broken. *)
RECURSIVE BrokenLinks_CatchPushes(_)
BrokenLinks_CatchPushes(links) ==
    IF links = <<>> THEN <<>>
    ELSE LET a == Head(links) IN
         (IF Checked(a) /\ (a.requestThrows \/ a.status = 404)
          THEN <<a.href>> ELSE <<>>) \o BrokenLinks_CatchPushes(Tail(links))

(* The loop of checkForBrokenLinks: a GET that throws is caught and the    *)
(* loop goes on; a response with status 404 pushes the href.               *)
RECURSIVE BrokenLinks(_)
BrokenLinks(links) ==
    IF links = <<>> THEN <<>>
    ELSE LET a == Head(links) IN
         (IF Checked(a) /\ ~a.requestThrows /\ a.status = 404
          THEN <<a.href>> ELSE <<>>) \o BrokenLinks(Tail(links))

(* checkForBrokenLinks: scrollToFooter, then the loop over the anchors. *)
checkForBrokenLinks ==
    /\ pc = "idle"
    /\ \E scrolled \in BOOLEAN :
          IF ~scrolled
          THEN /\ Throw("scroll")
               /\ UNCHANGED <<results, log>>
          ELSE /\ log' = log \o Requests(footerLinks)
               /\ results' = Append(results, [op |-> "checkForBrokenLinks",
                                             value |-> BrokenLinks(footerLinks)])
               /\ pc' = "returned"
               /\ UNCHANGED errors
    /\ UNCHANGED <<suiteVars, domVars, url, test, link, scenario, cookieDialog,
                   attempts, waits, clicks, tabs, newPage>>

NextScan ==
    \/ getAllFooterLinkTexts
    \/ checkForBrokenLinks

SpecScan == InitScan /\ [][NextScan]_vars

Returned(op) == results # <<>> /\ results[1].op = op

(***************************************************************************)
(* C24: getAllFooterLinkTexts returns the trimmed texts of the footer      *)
(* links in document order, leaving out the links whose trimmed text is    *)
(* empty; no element of the result is empty or padded with blanks.         *)
(***************************************************************************)
C24_TrimmedNonEmptyTextsInOrder ==
    Returned("getAllFooterLinkTexts") =>
        LET value == results[1].value
            kept == SelectSeq(footerLinks,
                              LAMBDA a : \E i \in DOMAIN a.text : a.text[i] # " ")
        IN  /\ Len(value) = Len(kept)
            /\ \A i \in DOMAIN value :
                  /\ value[i] # <<>>
                  /\ Head(value[i]) # " "
                  /\ value[i][Len(value[i])] # " "
                  /\ Contains(kept[i].text, value[i])

C24_Witness ==
    /\ Returned("getAllFooterLinkTexts")
    /\ Len(footerLinks) = 3
    /\ footerLinks[1].text = <<" ", "b", " ">>
    /\ footerLinks[2].text = <<" ">>
    /\ results[1].value = << <<"b">>, <<"a">> >>

(***************************************************************************)
(* C25: checkForBrokenLinks returns, in link order, exactly the hrefs that *)
(* start with 'http' and whose GET answered 404; a GET that throws adds    *)
(* nothing and does not stop the scan; a link with no href or a non-http   *)
(* href is never requested.                                                *)
(***************************************************************************)
C25_Exactly404HttpLinks ==
    Returned("checkForBrokenLinks") =>
        LET broken == SelectSeq(footerLinks,
                        LAMBDA a : /\ a.hasHref
                                   /\ StartsWith(a.href, http)
                                   /\ ~a.requestThrows
                                   /\ a.status = 404)
            asked == SelectSeq(footerLinks,
                        LAMBDA a : a.hasHref /\ StartsWith(a.href, http))
        IN  /\ results[1].value = [i \in DOMAIN broken |-> broken[i].href]
            /\ log = [i \in DOMAIN asked |->
                         [step |-> "get", ms |-> 0, href |-> asked[i].href]]

C25_Witness ==
    /\ Returned("checkForBrokenLinks")
    /\ Len(footerLinks) = 3
    /\ footerLinks[1].requestThrows
    /\ footerLinks[2].href = <<"/", "p">>
    /\ results[1].value = <<http \o <<"s">>>>
    /\ Len(log) = 2

(***************************************************************************)
(* The visibility probes.  `footer` says when, counted from now, the       *)
(* footer element becomes visible, and whether the page is gone so that    *)
(* locator.waitFor rejects at once with an error other than a timeout.     *)
(***************************************************************************)
visibleTimeout == 5000

Never == 60000

FooterStates == [appearsAt : {0, 3000, 5500, 7000, Never}, detached : BOOLEAN]

MaxProbes == 3

InitProbe ==
    /\ pc = "idle"
    /\ link = "none"
    /\ scenario = [a \in 1..maxAttempts |-> "ok"]
    /\ cookieDialog = FALSE
    /\ attempts = 0
    /\ waits = <<>>
    /\ clicks = <<>>
    /\ tabs = <<>>
    /\ newPage = 0
    /\ log = <<>>
    /\ results = <<>>
    /\ errors = <<>>
    /\ url = "home"
    /\ test = [phase |-> "running", closed |-> {}]
    /\ SuiteIdle
    /\ footerLinks = <<>>
    /\ footer \in FooterStates

(* Variant: no try/catch around locator.waitFor. *)
isVisible_NoCatch(el, since) ==
    IF el.detached \/ el.appearsAt > since + visibleTimeout
    THEN [threw |-> TRUE, value |-> FALSE]
    ELSE [threw |-> FALSE, value |-> TRUE]

(***************************************************************************)
(* BasePage.isVisible called `since` ms from now: waitFor({ state:         *)
(* 'visible', timeout: 5000 }) resolves if the element is visible by then, *)
(* and any rejection is caught and turned into false.                      *)
(***************************************************************************)
isVisible(el, since) ==
    IF el.detached \/ el.appearsAt > since + visibleTimeout
    THEN [threw |-> FALSE, value |-> FALSE]
    ELSE [threw |-> FALSE, value |-> TRUE]

(* FooterComponent.isFooterVisible: return this.isVisible(this.footer). *)
isFooterVisible ==
    /\ pc = "idle"
    /\ Len(results) < MaxProbes
    /\ LET r == isVisible(footer, 0) IN
          IF r.threw
          THEN /\ Throw("isVisible")
               /\ UNCHANGED <<results, log>>
          ELSE /\ results' = Append(results, [op |-> "isFooterVisible",
                                             value |-> r.value])
               /\ log' = Append(log, Step("isFooterVisible", 0))
               /\ UNCHANGED <<pc, errors>>
    /\ UNCHANGED <<suiteVars, domVars, url, test, link, scenario, cookieDialog,
                   attempts, waits, clicks, tabs, newPage>>

(***************************************************************************)
(* FooterComponent.verifyFooterPresence: page.evaluate(scrollTo),          *)
(* wait(1000), isFooterVisible(), all inside try; catch returns false.     *)
(***************************************************************************)
verifyFooterPresence ==
    /\ pc = "idle"
    /\ Len(results) < MaxProbes
    /\ \E evaluateThrows \in BOOLEAN :
          LET r == isVisible(footer, 1000) IN
          /\ results' = Append(results,
                [op |-> "verifyFooterPresence",
                 value |-> IF evaluateThrows \/ r.threw THEN FALSE ELSE r.value])
          /\ log' = Append(log, IF evaluateThrows
                                THEN Step("evaluateThrew", 0)
                                ELSE Step("verifyFooterPresence", 1000))
    /\ UNCHANGED <<suiteVars, domVars, url, test, pc, link, scenario, cookieDialog,
                   attempts, waits, clicks, tabs, newPage, errors>>

NextProbe ==
    \/ isFooterVisible
    \/ verifyFooterPresence

SpecProbe == InitProbe /\ [][NextProbe]_vars

(***************************************************************************)
(* C26: the probes never raise; isVisible is true exactly when the element *)
(* becomes visible within 5000 ms, and verifyFooterPresence answers false  *)
(* when its scroll or its visibility check fails.                          *)
(***************************************************************************)
C26_ProbesNeverRaise ==
    /\ errors = <<>>
    /\ pc = "idle"
    /\ Len(log) = Len(results)
    /\ \A i \in DOMAIN results :
          /\ results[i].value \in BOOLEAN
          /\ results[i].op = "isFooterVisible" =>
                (results[i].value <=>
                    (~footer.detached /\ footer.appearsAt <= visibleTimeout))
          /\ (log[i].step = "evaluateThrew" \/ footer.detached
                \/ footer.appearsAt = Never) => ~results[i].value

C26_Witness ==
    /\ Len(results) = 3
    /\ footer = [appearsAt |-> 5500, detached |-> FALSE]
    /\ results[1] = [op |-> "isFooterVisible", value |-> FALSE]
    /\ results[2] = [op |-> "verifyFooterPresence", value |-> TRUE]
    /\ results[3] = [op |-> "verifyFooterPresence", value |-> FALSE]
====
